---- MODULE Spec2Model ----
(***************************************************************************)
(* A model of total_mapper.py: the ATM strike rounding, the last-trading-  *)
(* day search, the option lookup, the historical-candle fetch and persist  *)
(* loop of fetch_atm_data, and the six-step driver main().                 *)
(*                                                                         *)
(* Dates are proleptic Gregorian ordinals (Python's date.toordinal()), so  *)
(* that date arithmetic is integer arithmetic; strftime is computed by the *)
(* civil-from-days conversion and yields <<year, month, day>>.             *)
(***************************************************************************)
EXTENDS Integers, Sequences, FiniteSets, TLC

VARIABLES
    \* round_to_nearest_50 called on its own
    price, rounded, round_pc,
    \* get_last_trading_day
    today, from_date, api_holidays, holidays, current_date, cal_result, cal_pc,
    \* find_option_by_strike called on its own
    catalog, strike_price, option_type, target_expiry_ts, found, find_pc,
    \* fetch_atm_data: the module globals and the file it reads,
    nse_file, ACCESS_TOKEN, EXPIRY_DATE,
    \* its locals,
    instruments, expiry_ts, target_date, spot_price, atm_strike, leg, option,
    response, fetched, success,
    \* what happened to each leg, the files of HISTORIC_DATA_DIR, and where it is
    outcome, files, atm_return, atm_pc,
    \* main(): the files of TARGET_DIR, the results of the stages, what
    \* happened to each stage, and where it is
    upstox_file, upstox_temp, groww_file, groww_temp,
    upstox_success, groww_success, mapping_success, auth_success,
    historic_success, all_success, exit_code, stage, main_pc,
    \* the writes of fetch_atm_data over several runs: the files of
    \* HISTORIC_DATA_DIR, the legs written so far, and the number of writes
    store, written, run_count,
    \* the Symbol Normalizer: a display name, the same name in another letter
    \* case, their canonical symbols, and the symbol of the symbol
    raw_name, variant, norm_result, variant_result, renorm_result, norm_pc,
    \* get_nearest_thursday_fallback: datetime.now(), and what the function of
    \* total_mapper.py and that of Upstox_access_token.py return for it
    thu_now, mapper_expiry, token_expiry

roundVars == <<price, rounded, round_pc>>
calVars == <<today, from_date, api_holidays, holidays, current_date, cal_result, cal_pc>>
findVars == <<catalog, strike_price, option_type, target_expiry_ts, found, find_pc>>
atmVars == <<nse_file, ACCESS_TOKEN, EXPIRY_DATE, instruments, expiry_ts,
             target_date, spot_price, atm_strike, leg, option, response,
             fetched, success, outcome, files, atm_return, atm_pc>>
mainVars == <<upstox_file, upstox_temp, groww_file, groww_temp,
              upstox_success, groww_success, mapping_success, auth_success,
              historic_success, all_success, exit_code, stage, main_pc>>
runVars == <<store, written, run_count>>
normVars == <<raw_name, variant, norm_result, variant_result, renorm_result, norm_pc>>
thuVars == <<thu_now, mapper_expiry, token_expiry>>
vars == <<roundVars, calVars, findVars, atmVars, mainVars, runVars, normVars, thuVars>>

\* what an operation leaves alone: the state of the other operations
notRound == <<calVars, findVars, atmVars, mainVars, runVars, normVars, thuVars>>
notCal == <<roundVars, findVars, atmVars, mainVars, runVars, normVars, thuVars>>
notFind == <<roundVars, calVars, atmVars, mainVars, runVars, normVars, thuVars>>
notAtm == <<roundVars, calVars, findVars, mainVars, runVars, normVars, thuVars>>
notMain == <<roundVars, calVars, findVars, atmVars, runVars, normVars, thuVars>>
notRun == <<roundVars, calVars, findVars, atmVars, mainVars, normVars, thuVars>>
notNorm == <<roundVars, calVars, findVars, atmVars, mainVars, runVars, thuVars>>
notThu == <<roundVars, calVars, findVars, atmVars, mainVars, runVars, normVars>>

\* Python's None, where the value is otherwise a string
None == "None"
\* Python's None, where the value is otherwise a date or a number
NoneInt == 0 - 1
\* Python's None, where the value is otherwise a dict
NoneRec == [none |-> TRUE]
\* a missing timestamp (dict.get returns None)
NoneTs == <<>>

(***************************************************************************)
(* Bounds of the model                                                     *)
(***************************************************************************)
\* prices are counted in ticks of 1/TickDiv of a rupee (a float spot price
\* such as 124.5 is the tick count 249 when TickDiv = 2)
TickDiv == 2
\* the largest spot price, in rupees
MaxSpot == 260
\* the first value of date.today(): 739250 is Monday 2024-12-30; today ranges
\* over the seven days from it, one of every weekday
FirstToday == 739250
\* from_date ranges from today - MaxBack to today + MaxFwd
MaxBack == 9
MaxFwd == 1
\* the longest catalog find_option_by_strike is called on
MaxCatalog == 2
\* the longest catalog fetch_atm_data is run on
MaxAtmCatalog == 2
\* the most candles in a response
MaxCandles == 1
\* the longest catalog a download brings
MaxPayload == 1
\* the most files written over the runs of fetch_atm_data
MaxWrites == 3
\* the leading characters of a display name whose case varies one by one
CaseWindow == 3
\* the days after FirstToday on which the expiry fallback is called
MaxThuDays == 13

(***************************************************************************)
(* Program constants                                                       *)
(***************************************************************************)
\* the strike granularity of round_to_nearest_50
Granularity == 50
\* the midpoint the remainder is compared with
HalfGranularity == 25
\* the lookback bound of get_last_trading_day
LookbackDays == 10
\* date.weekday() < 5 is Monday..Friday
FirstWeekendDay == 5

(***************************************************************************)
(* datetime.date                                                           *)
(***************************************************************************)
\* date.weekday(): Monday is 0; ordinal 1 (0001-01-01) is a Monday
weekday(d) == (d + 6) % 7

\* date.strftime('%Y-%m-%d'): the civil date of an ordinal, as <<y, m, d>>
strftime(ordinal) ==
    LET z == ordinal + 305          \* days since 0000-03-01
        era == z \div 146097
        doe == z - era * 146097
        yoe == (doe - doe \div 1460 + doe \div 36524 - doe \div 146096) \div 365
        doy == doe - (365 * yoe + yoe \div 4 - yoe \div 100)
        mp == (5 * doy + 2) \div 153
        d == doy - (153 * mp + 2) \div 5 + 1
        m == IF mp < 10 THEN mp + 3 ELSE mp - 9
        y == yoe + era * 400 + (IF m <= 2 THEN 1 ELSE 0)
    IN <<y, m, d>>

\* datetime.strptime(s, "%Y-%m-%d") accepts the text <<y, m, d>>
DaysInMonth(y, m) ==
    IF m = 2
    THEN (IF (y % 4 = 0 /\ y % 100 # 0) \/ y % 400 = 0 THEN 29 ELSE 28)
    ELSE IF m \in {4, 6, 9, 11} THEN 30 ELSE 31

strptime_ok(s) ==
    /\ Len(s) = 3
    /\ s[1] \in 1..9999
    /\ s[2] \in 1..12
    /\ s[3] \in 1..DaysInMonth(s[1], s[2])

\* the ordinal of the civil date <<y, m, d>>
strptime(s) ==
    LET y == IF s[2] <= 2 THEN s[1] - 1 ELSE s[1]
        era == y \div 400
        yoe == y - era * 400
        mp == IF s[2] > 2 THEN s[2] - 3 ELSE s[2] + 9
        doy == (153 * mp + 2) \div 5 + s[3] - 1
        doe == yoe * 365 + yoe \div 4 - yoe \div 100 + doy
    IN era * 146097 + doe - 305

\* convert_expiry_to_timestamp(expiry_str): 23:59:59 of the day in epoch
\* milliseconds, kept as <<days since 1970-01-01, milliseconds of the day>>
\* (the product overflows a 32-bit integer); the local zone is taken as UTC
convert_expiry_to_timestamp(expiry_str) ==
    <<strptime(expiry_str) - 719163, ((23 * 60 + 59) * 60 + 59) * 1000>>

(***************************************************************************)
(* round_to_nearest_50(price), on tick counts                              *)
(***************************************************************************)
\* the rounding with the midpoint compared by <=, which sends it down
round_to_nearest_50_mid_down(p) ==
    LET remainder == p % (Granularity * TickDiv)
    IN IF remainder <= HalfGranularity * TickDiv
       THEN p - remainder
       ELSE p - remainder + Granularity * TickDiv

round_to_nearest_50(p) ==
    LET remainder == p % (Granularity * TickDiv)
    IN IF remainder < HalfGranularity * TickDiv
       THEN p - remainder
       ELSE p - remainder + Granularity * TickDiv

Prices == 0..(MaxSpot * TickDiv)

RoundInit ==
    /\ price \in Prices
    /\ rounded = NoneInt
    /\ round_pc = "call"

RoundCall ==
    /\ round_pc = "call"
    /\ rounded' = round_to_nearest_50(price)
    /\ round_pc' = "done"
    /\ UNCHANGED <<price, notRound>>

(***************************************************************************)
(* get_market_holidays() and get_last_trading_day(from_date)               *)
(***************************************************************************)
Todays == FirstToday..(FirstToday + 6)

\* the days whose holiday status the search can read
HolidayUniverse(t) ==
    {d \in (t - LookbackDays - 1)..(t + MaxFwd) : weekday(d) < FirstWeekendDay}

\* get_market_holidays(): the 'date' strings of the response, or [] when the
\* request fails or the status is not 200
get_market_holidays(reply) ==
    IF reply.ok THEN reply.dates ELSE {}

\* the trading-day test of the loop
is_trading_day(d, hol) ==
    weekday(d) < FirstWeekendDay /\ strftime(d) \notin hol

\* the bound of the loop, tested after the step back
lookback_exceeded(t, cur) == t - cur > LookbackDays

\* the value returned when the bound is exceeded
fallback_date(t) == t - 1

\* from_date or date.today()
reference_date == IF from_date = NoneInt THEN today ELSE from_date

CalInit ==
    /\ today \in Todays
    /\ from_date \in {NoneInt} \cup {today + k : k \in (0 - MaxBack)..MaxFwd}
    /\ api_holidays \in
         {[ok |-> TRUE, dates |-> {strftime(d) : d \in H}] :
              H \in SUBSET HolidayUniverse(today)}
         \cup {[ok |-> FALSE, dates |-> {}]}
    /\ holidays = {}
    /\ current_date = NoneInt
    /\ cal_result = NoneInt
    /\ cal_pc = "call"

\* lines 288-289
CalStart ==
    /\ cal_pc = "call"
    /\ holidays' = get_market_holidays(api_holidays)
    /\ current_date' = reference_date - 1
    /\ cal_pc' = "loop"
    /\ UNCHANGED <<today, from_date, api_holidays, cal_result, notCal>>

\* lines 291-292: the candidate is accepted
CalAccept ==
    /\ cal_pc = "loop"
    /\ is_trading_day(current_date, holidays)
    /\ cal_result' = current_date
    /\ cal_pc' = "done"
    /\ UNCHANGED <<today, from_date, api_holidays, holidays, current_date, notCal>>

\* lines 293-294: the candidate is rejected, one step back, the bound test
CalStepBack ==
    /\ cal_pc = "loop"
    /\ ~is_trading_day(current_date, holidays)
    /\ current_date' = current_date - 1
    /\ IF lookback_exceeded(today, current_date')
       THEN /\ cal_result' = fallback_date(today)
            /\ cal_pc' = "done"
       ELSE /\ cal_pc' = "loop"
            /\ UNCHANGED cal_result
    /\ UNCHANGED <<today, from_date, api_holidays, holidays, notCal>>

(***************************************************************************)
(* find_option_by_strike(strike_price, option_type, instruments,           *)
(* target_expiry_ts)                                                       *)
(***************************************************************************)
\* the test of lines 315-316 on one instrument (dict.get gives None for a
\* missing key)
option_matches(instrument, strike, otype, ts) ==
    /\ instrument.name = "NIFTY"
    /\ instrument.expiry = ts
    /\ instrument.strike_price = strike
    /\ instrument.instrument_type = otype

RECURSIVE scan_from(_, _, _, _, _)
scan_from(i, strike, otype, instrs, ts) ==
    IF i > Len(instrs) THEN NoneRec
    ELSE IF option_matches(instrs[i], strike, otype, ts)
         THEN instrs[i]
         ELSE scan_from(i + 1, strike, otype, instrs, ts)

\* the scan from the end of the catalog, which returns the last match
RECURSIVE scan_last_from(_, _, _, _, _)
scan_last_from(i, strike, otype, instrs, ts) ==
    IF i < 1 THEN NoneRec
    ELSE IF option_matches(instrs[i], strike, otype, ts)
         THEN instrs[i]
         ELSE scan_last_from(i - 1, strike, otype, instrs, ts)

find_option_last_match(strike, otype, instrs, ts) ==
    scan_last_from(Len(instrs), strike, otype, instrs, ts)

find_option_by_strike(strike, otype, instrs, ts) ==
    scan_from(1, strike, otype, instrs, ts)

\* the catalog records: options of two underlyings, two expiries, two strikes
\* and both sides, and the index itself, which has no strike and no expiry
ExpiryDates == {<<2025, 1, 30>>, <<2025, 2, 6>>}
ExpiryStamps == {convert_expiry_to_timestamp(e) : e \in ExpiryDates}
Strikes == {100 * TickDiv, 150 * TickDiv}
OptionTypes == {"CE", "PE"}

InstrumentShapes ==
    [name : {"NIFTY", "BANKNIFTY"}, expiry : ExpiryStamps,
     strike_price : Strikes, instrument_type : OptionTypes]
    \cup {[name |-> "NIFTY", expiry |-> NoneTs, strike_price |-> NoneInt,
           instrument_type |-> "INDEX"]}

\* a record of the catalog, its instrument_key made of its position
Keyed(shape, k) ==
    [name |-> shape.name, expiry |-> shape.expiry,
     strike_price |-> shape.strike_price,
     instrument_type |-> shape.instrument_type, instrument_key |-> k]

\* the catalogs fetch_atm_data is run on: NIFTY options of the target expiry
\* at both strikes, and one of another underlying
AtmShapes ==
    [name : {"NIFTY"}, expiry : {convert_expiry_to_timestamp(<<2025, 1, 30>>)},
     strike_price : Strikes, instrument_type : OptionTypes]
    \cup {[name |-> "BANKNIFTY", expiry |-> convert_expiry_to_timestamp(<<2025, 1, 30>>),
           strike_price |-> 100 * TickDiv, instrument_type |-> "CE"]}

AtmCatalogs ==
    UNION {{[i \in 1..n |-> Keyed(f[i], i)] : f \in [1..n -> AtmShapes]} :
              n \in 0..MaxAtmCatalog}

Catalogs(maxlen) ==
    UNION {{[i \in 1..n |-> Keyed(f[i], i)] : f \in [1..n -> InstrumentShapes]} :
              n \in 0..maxlen}

FindInit ==
    /\ catalog \in Catalogs(MaxCatalog)
    /\ strike_price \in Strikes
    /\ option_type \in OptionTypes
    /\ target_expiry_ts \in ExpiryStamps
    /\ found = NoneRec
    /\ find_pc = "call"

FindCall ==
    /\ find_pc = "call"
    /\ found' = find_option_by_strike(strike_price, option_type, catalog, target_expiry_ts)
    /\ find_pc' = "done"
    /\ UNCHANGED <<catalog, strike_price, option_type, target_expiry_ts>>
    /\ UNCHANGED notFind

FindIdle ==
    /\ catalog = <<>>
    /\ strike_price = NoneInt
    /\ option_type = None
    /\ target_expiry_ts = NoneTs
    /\ found = NoneRec
    /\ find_pc = "idle"

(***************************************************************************)
(* fetch_atm_data() and the functions it calls                             *)
(***************************************************************************)
\* the file at NSE_JSON_PATH: absent, not JSON, or a JSON list of records
NseFiles ==
    {[kind |-> "missing", data |-> <<>>], [kind |-> "malformed", data |-> <<>>]}
    \cup {[kind |-> "json", data |-> c] : c \in AtmCatalogs}

\* load_nse_instruments(): json.load of the file, [] on any exception
load_nse_instruments(file) ==
    IF file.kind = "json" THEN file.data ELSE <<>>

\* InstrumentMapper.load_upstox_instruments() on the same file: True and the
\* list, False on any exception
load_upstox_instruments(file) ==
    IF file.kind = "json"
    THEN [ok |-> TRUE, upstox_instruments |-> file.data]
    ELSE [ok |-> FALSE, upstox_instruments |-> <<>>]

\* line 341: not instruments or not ACCESS_TOKEN or not EXPIRY_DATE
atm_inputs_missing(instr, token, expiry) ==
    instr = <<>> \/ token = "" \/ expiry = <<>>

\* get_nifty_spot_from_date(target_date): the close of the day candle, None
\* on a failed request, a non-200 status or no candle
get_nifty_spot_from_date(reply) ==
    IF reply.ok THEN reply.close ELSE NoneInt

\* the replies of the spot request: a failure, or a close in ticks
SpotReplies ==
    {[ok |-> FALSE, close |-> NoneInt]}
    \cup {[ok |-> TRUE, close |-> c] :
             c \in {124 * TickDiv, 125 * TickDiv - 1, 125 * TickDiv}}

\* the days get_last_trading_day() hands to fetch_atm_data
TargetDates == {FirstToday - 3, FirstToday + 2}

\* a candle of the response, [timestamp, open, high, low, close, volume], and
\* one that is too short to index
GoodCandle == <<915, 10, 12, 9, 11, 100>>
ShortCandle == <<915, 10>>

CandleLists ==
    UNION {[1..n -> {GoodCandle, ShortCandle}] : n \in 0..MaxCandles}

NoBody == [json |-> FALSE, has_data |-> FALSE, candles |-> <<>>]

Responses ==
    {[transport_ok |-> FALSE, status_code |-> 0, body |-> NoBody]}
    \cup [transport_ok : {TRUE},
          status_code : {200, 204, 404},
          body : {NoBody, [json |-> TRUE, has_data |-> FALSE, candles |-> <<>>]}
                 \cup {[json |-> TRUE, has_data |-> TRUE, candles |-> c] :
                          c \in CandleLists}]

\* lines 329-330: one dict per candle
to_candle(c) ==
    [timestamp |-> c[1], open |-> c[2], high |-> c[3], low |-> c[4],
     close |-> c[5], volume |-> c[6]]

\* the candles of a decoded body, or an exception: response.json() raises on
\* a body that is not JSON, c[5] raises on a short candle
decode_candles(body) ==
    IF ~body.json THEN [raised |-> TRUE, candles |-> <<>>]
    ELSE LET candles_data == IF body.has_data THEN body.candles ELSE <<>>
         IN IF \E i \in 1..Len(candles_data) : Len(candles_data[i]) < 6
            THEN [raised |-> TRUE, candles |-> <<>>]
            ELSE [raised |-> FALSE,
                  candles |-> [i \in 1..Len(candles_data) |-> to_candle(candles_data[i])]]

\* the body of the try block, lines 322-330
try_fetch(resp) ==
    IF ~resp.transport_ok THEN [raised |-> TRUE, candles |-> <<>>]
    ELSE IF resp.status_code = 200 THEN decode_candles(resp.body)
    ELSE [raised |-> FALSE, candles |-> <<>>]

\* the fetch without the test of status_code
try_fetch_any_status(resp) ==
    IF ~resp.transport_ok THEN [raised |-> TRUE, candles |-> <<>>]
    ELSE decode_candles(resp.body)

fetch_historical_candles_any_status(resp) ==
    LET r == try_fetch_any_status(resp)
    IN IF r.raised THEN [raised |-> FALSE, candles |-> <<>>] ELSE r

\* fetch_historical_candles(instrument_key, target_date): except: pass, then
\* return []
fetch_historical_candles(resp) ==
    LET r == try_fetch(resp)
    IN IF r.raised THEN [raised |-> FALSE, candles |-> <<>>] ELSE r

\* option_type.lower()
lower(s) == IF s = "CE" THEN "ce" ELSE IF s = "PE" THEN "pe" ELSE s

\* line 362: f"{int(atm_strike)}_{target_date.strftime('%d%m')}_{option_type.lower()}.json"
filename(strike, day, otype) ==
    <<strike \div TickDiv, <<strftime(day)[3], strftime(day)[2]>>, lower(otype)>>

\* for option_type in ['CE', 'PE']
Legs == <<"CE", "PE">>

\* the files of HISTORIC_DATA_DIR after a file is written whole
write_file(fs, name, data) ==
    {f \in fs : f.name # name} \cup {[name |-> name, data |-> data]}

FetchedNone == [raised |-> FALSE, candles |-> <<>>]
ResponseNone == [transport_ok |-> FALSE, status_code |-> 0, body |-> NoBody]
TruncatedFile == [truncated |-> TRUE]

AtmInit ==
    /\ nse_file \in NseFiles
    /\ ACCESS_TOKEN \in {"", "token"}
    /\ EXPIRY_DATE \in {<<>>, <<30, 1, 2025>>, <<2025, 1, 30>>}
    /\ instruments = <<>>
    /\ expiry_ts = NoneTs
    /\ target_date = NoneInt
    /\ spot_price = NoneInt
    /\ atm_strike = NoneInt
    /\ leg = 0
    /\ option = NoneRec
    /\ response = ResponseNone
    /\ fetched = FetchedNone
    /\ success = 0
    /\ outcome = [l \in {"CE", "PE"} |-> "pending"]
    /\ files = {}
    /\ atm_return = None
    /\ atm_pc = "start"

\* line 339: ensure_historic_dir(); os.makedirs may raise
AtmEnsureDir ==
    /\ atm_pc = "start"
    /\ \E made \in BOOLEAN :
         atm_pc' = IF made THEN "load" ELSE "raised"
    /\ UNCHANGED <<nse_file, ACCESS_TOKEN, EXPIRY_DATE, instruments, expiry_ts,
                   target_date, spot_price, atm_strike, leg, option, response,
                   fetched, success, outcome, files, atm_return>>
    /\ UNCHANGED notAtm

\* line 340
AtmLoad ==
    /\ atm_pc = "load"
    /\ instruments' = load_nse_instruments(nse_file)
    /\ atm_pc' = "loaded"
    /\ UNCHANGED <<nse_file, ACCESS_TOKEN, EXPIRY_DATE, expiry_ts,
                   target_date, spot_price, atm_strike, leg, option, response,
                   fetched, success, outcome, files, atm_return>>
    /\ UNCHANGED notAtm

\* lines 341-345: the guard, then convert_expiry_to_timestamp(EXPIRY_DATE),
\* which raises ValueError on a text that is no %Y-%m-%d date
AtmGuard ==
    /\ atm_pc = "loaded"
    /\ IF atm_inputs_missing(instruments, ACCESS_TOKEN, EXPIRY_DATE)
       THEN /\ atm_return' = "False"
            /\ atm_pc' = "returned"
            /\ UNCHANGED expiry_ts
       ELSE IF strptime_ok(EXPIRY_DATE)
       THEN /\ expiry_ts' = convert_expiry_to_timestamp(EXPIRY_DATE)
            /\ atm_pc' = "calendar"
            /\ UNCHANGED atm_return
       ELSE /\ atm_pc' = "raised"
            /\ UNCHANGED <<expiry_ts, atm_return>>
    /\ UNCHANGED <<nse_file, ACCESS_TOKEN, EXPIRY_DATE, instruments,
                   target_date, spot_price, atm_strike, leg, option, response,
                   fetched, success, outcome, files>>
    /\ UNCHANGED notAtm

\* lines 346-356: the trading day, the spot price, the ATM strike
AtmSpot ==
    /\ atm_pc = "calendar"
    /\ \E day \in TargetDates, reply \in SpotReplies :
         /\ target_date' = day
         /\ spot_price' = get_nifty_spot_from_date(reply)
         /\ IF spot_price' = NoneInt
            THEN /\ atm_return' = "False"
                 /\ atm_pc' = "returned"
                 /\ UNCHANGED <<atm_strike, leg, success>>
            ELSE /\ atm_strike' = round_to_nearest_50(spot_price')
                 /\ success' = 0
                 /\ leg' = 1
                 /\ atm_pc' = "find"
                 /\ UNCHANGED atm_return
    /\ UNCHANGED <<nse_file, ACCESS_TOKEN, EXPIRY_DATE, instruments, expiry_ts,
                   option, response, fetched, outcome, files>>
    /\ UNCHANGED notAtm

\* lines 357-359: the next leg, and the lookup of its option
AtmFind ==
    /\ atm_pc = "find"
    /\ leg <= Len(Legs)
    /\ option' = find_option_by_strike(atm_strike, Legs[leg], instruments, expiry_ts)
    /\ IF option' = NoneRec
       THEN /\ outcome' = [outcome EXCEPT ![Legs[leg]] = "not_found"]
            /\ leg' = leg + 1
            /\ UNCHANGED atm_pc
       ELSE /\ atm_pc' = "fetch"
            /\ UNCHANGED <<outcome, leg>>
    /\ UNCHANGED <<nse_file, ACCESS_TOKEN, EXPIRY_DATE, instruments, expiry_ts,
                   target_date, spot_price, atm_strike, response, fetched,
                   success, files, atm_return>>
    /\ UNCHANGED notAtm

\* lines 360-361: the candles of the leg
AtmFetch ==
    /\ atm_pc = "fetch"
    /\ \E resp \in Responses :
         /\ response' = resp
         /\ fetched' = fetch_historical_candles(resp)
    /\ IF fetched'.raised
       THEN /\ atm_pc' = "raised"
            /\ UNCHANGED <<outcome, leg>>
       ELSE IF fetched'.candles = <<>>
       THEN /\ outcome' = [outcome EXCEPT ![Legs[leg]] = "no_candles"]
            /\ leg' = leg + 1
            /\ atm_pc' = "find"
       ELSE /\ atm_pc' = "write"
            /\ UNCHANGED <<outcome, leg>>
    /\ UNCHANGED <<nse_file, ACCESS_TOKEN, EXPIRY_DATE, instruments, expiry_ts,
                   target_date, spot_price, atm_strike, option, success, files,
                   atm_return>>
    /\ UNCHANGED notAtm

\* lines 362-366: the file of the leg; open() or json.dump may raise, and
\* nothing catches it
AtmWrite ==
    /\ atm_pc = "write"
    /\ LET name == filename(atm_strike, target_date, Legs[leg])
           data == [option |-> option, trading_date |-> strftime(target_date),
                    candles |-> fetched.candles]
       IN \E io \in {"written", "open_raises", "dump_raises"} :
            IF io = "written"
            THEN /\ files' = write_file(files, name, data)
                 /\ success' = success + 1
                 /\ outcome' = [outcome EXCEPT ![Legs[leg]] = "written"]
                 /\ leg' = leg + 1
                 /\ atm_pc' = "find"
            ELSE /\ files' = IF io = "dump_raises"
                             THEN write_file(files, name, TruncatedFile)
                             ELSE files
                 /\ outcome' = [outcome EXCEPT ![Legs[leg]] = "write_failed"]
                 /\ atm_pc' = "raised"
                 /\ UNCHANGED <<success, leg>>
    /\ UNCHANGED <<nse_file, ACCESS_TOKEN, EXPIRY_DATE, instruments, expiry_ts,
                   target_date, spot_price, atm_strike, option, response,
                   fetched, atm_return>>
    /\ UNCHANGED notAtm

\* lines 368-369: return success > 0
AtmReturn ==
    /\ atm_pc = "find"
    /\ leg > Len(Legs)
    /\ atm_return' = IF success > 0 THEN "True" ELSE "False"
    /\ atm_pc' = "returned"
    /\ UNCHANGED <<nse_file, ACCESS_TOKEN, EXPIRY_DATE, instruments, expiry_ts,
                   target_date, spot_price, atm_strike, leg, option, response,
                   fetched, success, outcome, files>>
    /\ UNCHANGED notAtm

AtmIdle ==
    /\ nse_file = [kind |-> "missing", data |-> <<>>]
    /\ ACCESS_TOKEN = ""
    /\ EXPIRY_DATE = <<>>
    /\ instruments = <<>>
    /\ expiry_ts = NoneTs
    /\ target_date = NoneInt
    /\ spot_price = NoneInt
    /\ atm_strike = NoneInt
    /\ leg = 0
    /\ option = NoneRec
    /\ response = ResponseNone
    /\ fetched = FetchedNone
    /\ success = 0
    /\ outcome = [l \in {"CE", "PE"} |-> "pending"]
    /\ files = {}
    /\ atm_return = None
    /\ atm_pc = "idle"

(***************************************************************************)
(* main(): the downloads, the mapping, the authentication, the historic    *)
(* fetch, the summary and the exit code                                    *)
(***************************************************************************)
MissingFile == [kind |-> "missing", data |-> <<>>]

\* the catalog a previous run left at UPSTOX_PATH
OldUpstoxFile ==
    [kind |-> "json",
     data |-> <<Keyed([name |-> "NIFTY",
                       expiry |-> convert_expiry_to_timestamp(<<2025, 1, 30>>),
                       strike_price |-> 100 * TickDiv,
                       instrument_type |-> "CE"], 0)>>]

\* what json.loads(decompressed_data) can be: a list of records (possibly
\* empty), or JSON that is no list and no dict (a string, which has a len(),
\* or a number, true, false or null, which have none)
UpstoxPayloads ==
    {[kind |-> "json", data |-> c] : c \in Catalogs(MaxPayload)}
    \cup {[kind |-> "json_scalar", data |-> <<>>]}

\* the Groww CSV: its data rows, and whether it decodes in the default
\* encoding of open() as well as in utf-8
OldGrowwFile == [kind |-> "csv", rows |-> 1, old |-> TRUE]
MissingCsv == [kind |-> "missing", rows |-> 0, old |-> FALSE]
GrowwPayloads ==
    {[kind |-> "csv", rows |-> n, old |-> FALSE] : n \in 0..1}
    \cup {[kind |-> "csv_utf8_only", rows |-> 1, old |-> FALSE]}

\* InstrumentMapper.load_groww_instruments(): True and the rows, False on any
\* exception
load_groww_instruments(file) ==
    IF file.kind = "csv"
    THEN [ok |-> TRUE, groww_instruments |-> file.rows]
    ELSE [ok |-> FALSE, groww_instruments |-> 0]

\* InstrumentMapper.run()
mapper_run(upfile, grfile) ==
    load_upstox_instruments(upfile).ok /\ load_groww_instruments(grfile).ok

\* the steps of download_upstox_nse that can raise, in order, and "none";
\* "len" is len(parsed) on line 204, after the rename
UpstoxSteps ==
    {"request", "status", "gzip", "json", "open_temp", "dump", "remove",
     "rename", "len", "none"}

\* the steps of download_groww_instruments that can raise, in order, and "none"
GrowwSteps ==
    {"request", "status", "open_temp", "write", "read_temp", "remove",
     "rename", "none"}

\* the steps after which the temporary file exists
LeavesTemp == {"dump", "write", "read_temp", "remove", "rename"}

\* line 388: the mapper is created
mapping_attempted(up, gr, mp, au) == up /\ gr
\* line 390
auth_attempted(up, gr, mp, au) == up
\* the historic fetch made to wait for the mapping as well
historic_fail_fast(up, gr, mp, au) == mp /\ au
\* line 393
historic_attempted(up, gr, mp, au) == au

\* the conjunction without mapping_success
all_success_without_mapping(up, gr, mp, au, hi) == up /\ gr /\ au /\ hi
\* line 407
compute_all_success(up, gr, mp, au, hi) == up /\ gr /\ mp /\ au /\ hi

Stages == {"upstox", "groww", "mapping", "auth", "historic"}

MainInit ==
    /\ main_pc = "upstox"
    /\ upstox_file \in {MissingFile, OldUpstoxFile}
    /\ upstox_temp = FALSE
    /\ groww_file \in {MissingCsv, OldGrowwFile}
    /\ groww_temp = FALSE
    /\ upstox_success = FALSE
    /\ groww_success = FALSE
    /\ mapping_success = FALSE
    /\ auth_success = FALSE
    /\ historic_success = FALSE
    /\ all_success = FALSE
    /\ exit_code = NoneInt
    /\ stage = [s \in Stages |-> "pending"]

\* line 385 and lines 192-208: download_upstox_nse()
MainDownloadUpstox ==
    /\ main_pc = "upstox"
    /\ \E failed \in UpstoxSteps, parsed \in UpstoxPayloads :
         /\ failed = "remove" => upstox_file.kind # "missing"
         /\ failed = "len" => parsed.kind = "json_scalar"
         /\ upstox_success' = (failed = "none")
         /\ upstox_file' = IF failed \in {"none", "len"} THEN parsed
                           ELSE IF failed = "rename" THEN MissingFile
                           ELSE upstox_file
         /\ upstox_temp' = (failed \in LeavesTemp)
         /\ stage' = [stage EXCEPT !["upstox"] =
                          IF failed = "none" THEN "ok" ELSE "failed"]
    /\ main_pc' = "groww"
    /\ UNCHANGED <<groww_file, groww_temp, groww_success, mapping_success,
                   auth_success, historic_success, all_success, exit_code>>
    /\ UNCHANGED notMain

\* line 386 and lines 210-225: download_groww_instruments()
MainDownloadGroww ==
    /\ main_pc = "groww"
    /\ \E failed \in GrowwSteps, content \in GrowwPayloads :
         /\ failed = "remove" => groww_file.kind # "missing"
         /\ groww_success' = (failed = "none")
         /\ groww_file' = IF failed = "none" THEN content
                          ELSE IF failed = "rename" THEN MissingCsv
                          ELSE groww_file
         /\ groww_temp' = (failed \in LeavesTemp)
         /\ stage' = [stage EXCEPT !["groww"] =
                          IF failed = "none" THEN "ok" ELSE "failed"]
    /\ main_pc' = "mapping"
    /\ UNCHANGED <<upstox_file, upstox_temp, upstox_success, mapping_success,
                   auth_success, historic_success, all_success, exit_code>>
    /\ UNCHANGED notMain

\* lines 388-389: the mapper and its run()
MainMapping ==
    /\ main_pc = "mapping"
    /\ IF mapping_attempted(upstox_success, groww_success, mapping_success, auth_success)
       THEN /\ mapping_success' = mapper_run(upstox_file, groww_file)
            /\ stage' = [stage EXCEPT !["mapping"] =
                             IF mapping_success' THEN "ok" ELSE "failed"]
       ELSE /\ mapping_success' = FALSE
            /\ stage' = [stage EXCEPT !["mapping"] = "skipped"]
    /\ main_pc' = "auth"
    /\ UNCHANGED <<upstox_file, upstox_temp, groww_file, groww_temp,
                   upstox_success, groww_success, auth_success,
                   historic_success, all_success, exit_code>>
    /\ UNCHANGED notMain

\* line 390 and lines 178-186: authenticate_upstox() catches every Exception
MainAuth ==
    /\ main_pc = "auth"
    /\ IF auth_attempted(upstox_success, groww_success, mapping_success, auth_success)
       THEN \E authenticated \in BOOLEAN :
              /\ auth_success' = authenticated
              /\ stage' = [stage EXCEPT !["auth"] =
                               IF authenticated THEN "ok" ELSE "failed"]
       ELSE /\ auth_success' = FALSE
            /\ stage' = [stage EXCEPT !["auth"] = "skipped"]
    /\ main_pc' = "historic"
    /\ UNCHANGED <<upstox_file, upstox_temp, groww_file, groww_temp,
                   upstox_success, groww_success, mapping_success,
                   historic_success, all_success, exit_code>>
    /\ UNCHANGED notMain

\* line 393: fetch_atm_data() returns True or False, or raises; an exception
\* leaves main() and the interpreter exits with status 1
MainHistoric ==
    /\ main_pc = "historic"
    /\ IF historic_attempted(upstox_success, groww_success, mapping_success, auth_success)
       THEN \E fetch \in {"True", "False", "raised"} :
              /\ historic_success' = (fetch = "True")
              /\ stage' = [stage EXCEPT !["historic"] =
                               IF fetch = "True" THEN "ok"
                               ELSE IF fetch = "False" THEN "failed"
                               ELSE "raised"]
              /\ main_pc' = IF fetch = "raised" THEN "exited" ELSE "summary"
              /\ exit_code' = IF fetch = "raised" THEN 1 ELSE exit_code
       ELSE /\ historic_success' = FALSE
            /\ stage' = [stage EXCEPT !["historic"] = "skipped"]
            /\ main_pc' = "summary"
            /\ UNCHANGED exit_code
    /\ UNCHANGED <<upstox_file, upstox_temp, groww_file, groww_temp,
                   upstox_success, groww_success, mapping_success,
                   auth_success, all_success>>
    /\ UNCHANGED notMain

\* lines 395-409: the summary and return all_success
MainSummary ==
    /\ main_pc = "summary"
    /\ all_success' = compute_all_success(upstox_success, groww_success,
                          mapping_success, auth_success, historic_success)
    /\ main_pc' = "returned"
    /\ UNCHANGED <<upstox_file, upstox_temp, groww_file, groww_temp,
                   upstox_success, groww_success, mapping_success,
                   auth_success, historic_success, exit_code, stage>>
    /\ UNCHANGED notMain

\* lines 412-413: exit(0 if success else 1)
MainExit ==
    /\ main_pc = "returned"
    /\ exit_code' = IF all_success THEN 0 ELSE 1
    /\ main_pc' = "exited"
    /\ UNCHANGED <<upstox_file, upstox_temp, groww_file, groww_temp,
                   upstox_success, groww_success, mapping_success,
                   auth_success, historic_success, all_success, stage>>
    /\ UNCHANGED notMain

MainIdle ==
    /\ main_pc = "idle"
    /\ upstox_file = MissingFile
    /\ upstox_temp = FALSE
    /\ groww_file = MissingCsv
    /\ groww_temp = FALSE
    /\ upstox_success = FALSE
    /\ groww_success = FALSE
    /\ mapping_success = FALSE
    /\ auth_success = FALSE
    /\ historic_success = FALSE
    /\ all_success = FALSE
    /\ exit_code = NoneInt
    /\ stage = [s \in Stages |-> "pending"]

(***************************************************************************)
(* Properties of main()                                                    *)
(***************************************************************************)
\* C7: main() returns success, and the process exits with code 0, only if
\* every stage succeeded (both downloads, the mapping, the authentication,
\* the historic fetch); for every other combination of stage outcomes it
\* returns failure and the exit code is 1.
C7_SuccessOnlyIfEveryStageSucceeded ==
    /\ main_pc = "returned" =>
           (all_success <=> \A s \in Stages : stage[s] = "ok")
    /\ main_pc = "exited" =>
           /\ exit_code \in {0, 1}
           /\ (exit_code = 0 <=> \A s \in Stages : stage[s] = "ok")

\* the run exits with 1 although both downloads, the authentication and the
\* historic fetch succeeded: only the mapping failed
C7_Witness ==
    /\ main_pc = "exited"
    /\ exit_code = 1
    /\ stage = [s \in Stages |-> IF s = "mapping" THEN "failed" ELSE "ok"]

\* the stages whose output a stage reads: the mapper loads both downloaded
\* files, the authentication reads the Upstox catalog for the expiry, the
\* historic fetch reads the Upstox catalog and the token and expiry that the
\* authentication stores
Consumes ==
    [s \in Stages |->
        IF s = "mapping" THEN {"upstox", "groww"}
        ELSE IF s = "auth" THEN {"upstox"}
        ELSE IF s = "historic" THEN {"upstox", "auth"}
        ELSE {}]

\* the stages main() has passed
Decided ==
    IF main_pc = "upstox" THEN {}
    ELSE IF main_pc = "groww" THEN {"upstox"}
    ELSE IF main_pc = "mapping" THEN {"upstox", "groww"}
    ELSE IF main_pc = "auth" THEN {"upstox", "groww", "mapping"}
    ELSE IF main_pc = "historic" THEN {"upstox", "groww", "mapping", "auth"}
    ELSE IF main_pc = "idle" THEN {}
    ELSE Stages

\* C8: every stage main() has passed was attempted, unless a stage whose
\* output it consumes failed: a stage is skipped only if one of the stages it
\* consumes did not succeed, and the downloads are never skipped.
C8_SkippedOnlyOnFailedDependency ==
    \A s \in Decided :
        /\ stage[s] # "pending"
        /\ stage[s] = "skipped" => \E d \in Consumes[s] : stage[d] # "ok"

\* the Upstox download failed, the Groww download was still attempted and
\* succeeded, and the three stages that consume the Upstox catalog were skipped
C8_Witness ==
    /\ main_pc = "exited"
    /\ stage["upstox"] = "failed"
    /\ stage["groww"] = "ok"
    /\ stage["mapping"] = "skipped"
    /\ stage["auth"] = "skipped"
    /\ stage["historic"] = "skipped"

\* C13: whenever download_upstox_nse returns False, whichever step failed,
\* the catalog stored at UPSTOX_PATH is what it was before the call: the
\* stored catalog is only replaced by a fully parsed new one, on success.
C13_FailedDownloadKeepsCatalog ==
    [][(main_pc = "upstox" /\ main_pc' = "groww" /\ ~upstox_success')
          => upstox_file' = upstox_file]_vars

(***************************************************************************)
(* The candle files over several runs of fetch_atm_data                    *)
(***************************************************************************)
\* the trading days of the runs: Friday 2024-12-27, Monday 2024-12-30 and
\* Tuesday 2025-12-30 when FirstToday is 2024-12-30
RunDates == {FirstToday - 3, FirstToday, FirstToday + 365}

\* line 363: what the file of a leg holds of its strike, side and day
leg_data(strike, day, otype) ==
    [strike_price |-> strike, instrument_type |-> otype,
     trading_date |-> strftime(day)]

RunInit ==
    /\ store = {}
    /\ written = {}
    /\ run_count = 0

\* lines 362-364: one leg of one run is written to its file
RunWrite ==
    /\ run_count < MaxWrites
    /\ \E strike \in Strikes, day \in RunDates, otype \in OptionTypes :
         /\ store' = write_file(store, filename(strike, day, otype),
                                leg_data(strike, day, otype))
         /\ written' = written \cup {<<strike, day, otype>>}
    /\ run_count' = run_count + 1
    /\ UNCHANGED notRun

RunIdle ==
    /\ store = {}
    /\ written = {}
    /\ run_count = 0

(***************************************************************************)
(* Properties of the candle files                                          *)
(***************************************************************************)
\* C11: the file names of two distinct (strike, trading_day, option_type)
\* triples are distinct, so every leg written so far still has its own file
\* with its own content: no write for another triple has replaced it.
C11_OneFilePerLeg ==
    /\ \A a \in written, b \in written :
           a # b => filename(a[1], a[2], a[3]) # filename(b[1], b[2], b[3])
    /\ \A a \in written :
           [name |-> filename(a[1], a[2], a[3]),
            data |-> leg_data(a[1], a[2], a[3])] \in store

(***************************************************************************)
(* The Symbol Normalizer                                                   *)
(***************************************************************************)
\* A name is the sequence of its characters.
Name_NIFTY ==
    <<"N","I","F","T","Y">>
Name_NIFTY_50 ==
    <<"N","I","F","T","Y"," ","5","0">>
Name_BANKNIFTY ==
    <<"B","A","N","K","N","I","F","T","Y">>
Name_NIFTY_BANK ==
    <<"N","I","F","T","Y"," ","B","A","N","K">>
Name_FINNIFTY ==
    <<"F","I","N","N","I","F","T","Y">>
Name_NIFTY_FIN_SERVICE ==
    <<"N","I","F","T","Y"," ","F","I","N"," ",
    "S","E","R","V","I","C","E">>
Name_NIFTY_FINANCIAL_SERVICES ==
    <<"N","I","F","T","Y"," ","F","I","N","A","N","C","I","A","L"," ",
    "S","E","R","V","I","C","E","S">>
Name_MIDCPNIFTY ==
    <<"M","I","D","C","P","N","I","F","T","Y">>
Name_NIFTY_MIDCAP_SELECT ==
    <<"N","I","F","T","Y"," ","M","I","D","C","A","P"," ",
    "S","E","L","E","C","T">>
Name_SENSEX ==
    <<"S","E","N","S","E","X">>
Name_BANKEX ==
    <<"B","A","N","K","E","X">>
Name_RELIANCE ==
    <<"R","E","L","I","A","N","C","E">>

\* the table with the display name "NIFTY 50" left as its own symbol
SYMBOL_MAPPINGS_unmapped_alias ==
    (Name_NIFTY :> Name_NIFTY)
    @@ (Name_NIFTY_50 :> Name_NIFTY_50)
    @@ (Name_BANKNIFTY :> Name_BANKNIFTY)
    @@ (Name_NIFTY_BANK :> Name_BANKNIFTY)
    @@ (Name_FINNIFTY :> Name_FINNIFTY)
    @@ (Name_NIFTY_FIN_SERVICE :> Name_FINNIFTY)
    @@ (Name_NIFTY_FINANCIAL_SERVICES :> Name_FINNIFTY)
    @@ (Name_MIDCPNIFTY :> Name_MIDCPNIFTY)
    @@ (Name_NIFTY_MIDCAP_SELECT :> Name_MIDCPNIFTY)
    @@ (Name_SENSEX :> Name_SENSEX)
    @@ (Name_BANKEX :> Name_BANKEX)

\* lines 228-232: the display names and their canonical symbols
SYMBOL_MAPPINGS ==
    (Name_NIFTY :> Name_NIFTY)
    @@ (Name_NIFTY_50 :> Name_NIFTY)
    @@ (Name_BANKNIFTY :> Name_BANKNIFTY)
    @@ (Name_NIFTY_BANK :> Name_BANKNIFTY)
    @@ (Name_FINNIFTY :> Name_FINNIFTY)
    @@ (Name_NIFTY_FIN_SERVICE :> Name_FINNIFTY)
    @@ (Name_NIFTY_FINANCIAL_SERVICES :> Name_FINNIFTY)
    @@ (Name_MIDCPNIFTY :> Name_MIDCPNIFTY)
    @@ (Name_NIFTY_MIDCAP_SELECT :> Name_MIDCPNIFTY)
    @@ (Name_SENSEX :> Name_SENSEX)
    @@ (Name_BANKEX :> Name_BANKEX)

\* the canonical symbols: NIFTY, BANKNIFTY, FINNIFTY, MIDCPNIFTY, SENSEX, BANKEX
CanonicalSymbols ==
    {Name_NIFTY, Name_BANKNIFTY, Name_FINNIFTY,
     Name_MIDCPNIFTY, Name_SENSEX, Name_BANKEX}

\* the result for a name the table does not hold
Unmapped == <<"unmapped">>

LowerCase ==
    <<"a","b","c","d","e","f","g","h","i","j","k","l","m",
      "n","o","p","q","r","s","t","u","v","w","x","y","z">>

UpperCase ==
    <<"A","B","C","D","E","F","G","H","I","J","K","L","M",
      "N","O","P","Q","R","S","T","U","V","W","X","Y","Z">>

\* a character in upper case; digits and blanks are left as they are
upper_char(c) ==
    IF \E i \in 1..26 : LowerCase[i] = c
    THEN UpperCase[CHOOSE i \in 1..26 : LowerCase[i] = c]
    ELSE c

\* a character in lower case
lower_char(c) ==
    IF \E i \in 1..26 : UpperCase[i] = c
    THEN LowerCase[CHOOSE i \in 1..26 : UpperCase[i] = c]
    ELSE c

upper(name) == [i \in 1..Len(name) |-> upper_char(name[i])]

\* two names that are the same but for the case of their letters
same_ignoring_case(a, b) == upper(a) = upper(b)

\* the Symbol Normalizer: case-insensitive exact-string lookup of a display
\* name in the table; "unmapped" when no entry matches
normalize(name) ==
    IF \E key \in DOMAIN SYMBOL_MAPPINGS : same_ignoring_case(key, name)
    THEN SYMBOL_MAPPINGS[CHOOSE key \in DOMAIN SYMBOL_MAPPINGS :
                            same_ignoring_case(key, name)]
    ELSE Unmapped

\* the names written in the catalogs: those of the table and one it lacks
DisplayNames == DOMAIN SYMBOL_MAPPINGS \cup {Name_RELIANCE}

\* the cases a name is written in: the letters at the positions of low,
\* and all letters past the window when rest holds, are in lower case
recase(name, low, rest) ==
    [i \in 1..Len(name) |->
        IF i \in low \/ (rest /\ i > CaseWindow)
        THEN lower_char(name[i]) ELSE name[i]]

Spellings(name) ==
    {recase(name, low, rest) :
        low \in SUBSET (1..CaseWindow), rest \in BOOLEAN}

NormInit ==
    /\ \E name \in DisplayNames :
         /\ raw_name \in Spellings(name)
         /\ variant \in Spellings(name)
    /\ norm_result = <<>>
    /\ variant_result = <<>>
    /\ renorm_result = <<>>
    /\ norm_pc = "call"

\* the two spellings are normalized
NormCall ==
    /\ norm_pc = "call"
    /\ norm_result' = normalize(raw_name)
    /\ variant_result' = normalize(variant)
    /\ norm_pc' = "again"
    /\ UNCHANGED <<raw_name, variant, renorm_result>>
    /\ UNCHANGED notNorm

\* the canonical symbol is normalized again
NormAgain ==
    /\ norm_pc = "again"
    /\ renorm_result' = normalize(norm_result)
    /\ norm_pc' = "done"
    /\ UNCHANGED <<raw_name, variant, norm_result, variant_result>>
    /\ UNCHANGED notNorm

NormIdle ==
    /\ raw_name = <<>>
    /\ variant = <<>>
    /\ norm_result = <<>>
    /\ variant_result = <<>>
    /\ renorm_result = <<>>
    /\ norm_pc = "idle"

(***************************************************************************)
(* Properties of the Symbol Normalizer                                     *)
(***************************************************************************)
\* C12: normalization is idempotent and case-insensitive: a name of the
\* table maps to one canonical symbol, a name outside it to "unmapped";
\* the symbol of a symbol is that symbol; two spellings of a name that
\* differ only in letter case have the same symbol; and "nifty 50" and
\* "NIFTY 50" both give "NIFTY".
C12_IdempotentAndCaseInsensitive ==
    norm_pc = "done" =>
        /\ norm_result \in CanonicalSymbols \cup {Unmapped}
        /\ renorm_result = norm_result
        /\ variant_result = norm_result
        /\ upper(raw_name) = Name_NIFTY_50 => norm_result = Name_NIFTY
        /\ upper(raw_name) = Name_RELIANCE => norm_result = Unmapped

\* "nifty 50" and "NIFTY 50" have been normalized, and the symbol again
C12_Witness ==
    /\ norm_pc = "done"
    /\ raw_name = <<"n","i","f","t","y"," ","5","0">>
    /\ variant = Name_NIFTY_50
    /\ norm_result = Name_NIFTY
    /\ renorm_result = Name_NIFTY

(***************************************************************************)
(* get_nearest_thursday_fallback, in total_mapper.py and in                *)
(* Upstox_access_token.py                                                  *)
(***************************************************************************)
\* A datetime is <<day, hour>>: the ordinal of its date and its hour.
Hours == {0, 12, 23}

\* datetime + timedelta(days=n): the time of day is kept
plus_days(now, n) == <<now[1] + n, now[2]>>

\* total_mapper.py with Friday taken to the Thursday after next week's start
get_nearest_thursday_fallback_friday_week(now) ==
    LET current_weekday == weekday(now[1]) IN
    IF current_weekday < 3 THEN plus_days(now, 3 - current_weekday)
    ELSE IF current_weekday = 3 THEN now
    ELSE IF current_weekday = 4 THEN plus_days(now, 7)
    ELSE plus_days(now, (3 - current_weekday) % 7)

\* total_mapper.py, lines 102-115
get_nearest_thursday_fallback(now) ==
    LET current_weekday == weekday(now[1]) IN
    IF current_weekday < 3 THEN plus_days(now, 3 - current_weekday)
    ELSE IF current_weekday = 3 THEN now
    ELSE IF current_weekday = 4 THEN plus_days(now, 6)
    ELSE plus_days(now, (3 - current_weekday) % 7)

\* Upstox_access_token.py, lines 110-123
token_get_nearest_thursday_fallback(now) ==
    LET current_weekday == weekday(now[1])
        days_until_thursday ==
            IF current_weekday < 3 THEN 3 - current_weekday
            ELSE IF current_weekday = 3 THEN 0
            ELSE (3 - current_weekday) % 7
    IN  plus_days(now, days_until_thursday)

ThuInit ==
    /\ thu_now \in (FirstToday..(FirstToday + MaxThuDays)) \X Hours
    /\ mapper_expiry = NoneTs
    /\ token_expiry = NoneTs

\* total_mapper.py falls back to the nearest Thursday
ThuMapper ==
    /\ thu_now # NoneTs
    /\ mapper_expiry = NoneTs
    /\ mapper_expiry' = get_nearest_thursday_fallback(thu_now)
    /\ UNCHANGED <<thu_now, token_expiry>>
    /\ UNCHANGED notThu

\* Upstox_access_token.py falls back to the nearest Thursday
ThuToken ==
    /\ thu_now # NoneTs
    /\ token_expiry = NoneTs
    /\ token_expiry' = token_get_nearest_thursday_fallback(thu_now)
    /\ UNCHANGED <<thu_now, mapper_expiry>>
    /\ UNCHANGED notThu

ThuIdle ==
    /\ thu_now = NoneTs
    /\ mapper_expiry = NoneTs
    /\ token_expiry = NoneTs

(***************************************************************************)
(* Properties of get_nearest_thursday_fallback                             *)
(***************************************************************************)
\* a Thursday on or after the day of now, at most 6 days ahead
NearestThursday(now, expiry) ==
    /\ weekday(expiry[1]) = 3
    /\ expiry[1] >= now[1]
    /\ expiry[1] - now[1] <= 6

\* C14: on every weekday of today, get_nearest_thursday_fallback returns a
\* Thursday on or after today and at most 6 days ahead, in total_mapper.py
\* and in Upstox_access_token.py, and the two return the same date.
C14_NearestThursdayInBoth ==
    /\ mapper_expiry # NoneTs => NearestThursday(thu_now, mapper_expiry)
    /\ token_expiry # NoneTs => NearestThursday(thu_now, token_expiry)
    /\ (mapper_expiry # NoneTs /\ token_expiry # NoneTs)
          => mapper_expiry = token_expiry

\* both were called on a Friday and returned the Thursday six days later
C14_Witness ==
    /\ thu_now # NoneTs
    /\ weekday(thu_now[1]) = 4
    /\ mapper_expiry = plus_days(thu_now, 6)
    /\ token_expiry = plus_days(thu_now, 6)

(***************************************************************************)
(* Properties of fetch_historical_candles and fetch_atm_data               *)
(***************************************************************************)
\* C5: fetch_historical_candles never raises; it returns no candles on a
\* transport failure and on every non-2xx response, and returns candles only
\* when the response was successful and carried candles.
C5_EmptyOnFailure ==
    /\ ~fetched.raised
    /\ (~response.transport_ok \/ response.status_code \notin 200..299) =>
           fetched.candles = <<>>
    /\ fetched.candles # <<>> =>
           /\ response.transport_ok
           /\ response.status_code \in 200..299
           /\ response.body.json /\ response.body.has_data
           /\ Len(response.body.candles) = Len(fetched.candles)

\* a 404 response whose body carries a candle has been fetched, as no candles
C5_Witness ==
    /\ atm_pc = "find"
    /\ response.transport_ok
    /\ response.status_code = 404
    /\ response.body.candles # <<>>
    /\ fetched.candles = <<>>
    /\ outcome[Legs[1]] = "no_candles"

\* the legs whose file was written
WrittenLegs == {l \in {"CE", "PE"} : outcome[l] = "written"}

\* C6: each leg that is fetched ends as no candles, write succeeded or write
\* failed; a write failure on one leg is reported as an outcome, not raised,
\* and does not stop the other leg from being processed; the success count
\* reported is the number of legs whose write succeeded.
C6_WriteFailureIsAnOutcome ==
    (\E l \in {"CE", "PE"} : outcome[l] = "write_failed") =>
        /\ atm_pc # "raised"
        /\ (atm_pc = "returned" =>
               /\ \A l \in {"CE", "PE"} : outcome[l] # "pending"
               /\ success = Cardinality(WrittenLegs))

\* C10: a well-formed catalog with zero records loads as a successful result
\* that differs from the result of loading a malformed catalog, in
\* InstrumentMapper.load_upstox_instruments and in load_nse_instruments, and
\* fetch_atm_data does not treat it as a failure.
C10_EmptyCatalogIsNotAnError ==
    (atm_pc = "loaded" /\ nse_file = [kind |-> "json", data |-> <<>>]) =>
        /\ load_upstox_instruments(nse_file).ok
        /\ load_upstox_instruments(nse_file)
             # load_upstox_instruments([kind |-> "malformed", data |-> <<>>])
        /\ instruments # load_nse_instruments([kind |-> "malformed", data |-> <<>>])
        /\ ~atm_inputs_missing(instruments, "token", <<2025, 1, 30>>)

(***************************************************************************)
(* Properties of find_option_by_strike                                     *)
(***************************************************************************)
\* the positions of the catalog whose four fields equal the requested ones
MatchingPositions ==
    {i \in 1..Len(catalog) :
        /\ catalog[i].name = "NIFTY"
        /\ catalog[i].expiry = target_expiry_ts
        /\ catalog[i].strike_price = strike_price
        /\ catalog[i].instrument_type = option_type}

\* C4: find_option_by_strike returns the first record in catalog order whose
\* name, expiry, strike_price and instrument_type equal the requested values,
\* and None when no record matches; over an empty catalog it returns None.
C4_FirstMatchOrNone ==
    find_pc = "done" =>
        /\ (MatchingPositions = {} => found = NoneRec)
        /\ (MatchingPositions # {} =>
               \E i \in MatchingPositions :
                   /\ \A j \in MatchingPositions : i <= j
                   /\ found = catalog[i])
        /\ (catalog = <<>> => found = NoneRec)

\* two records match and the first of them has been returned
C4_Witness ==
    /\ find_pc = "done"
    /\ Cardinality(MatchingPositions) = 2
    /\ found = catalog[1]

(***************************************************************************)
(* Properties of round_to_nearest_50                                       *)
(***************************************************************************)
\* C1: for every spot price >= 0 the strike returned is an exact multiple of
\* 50, differs from the spot by at most 25, and an exact midpoint (remainder
\* 25) rounds up: spot 125 gives 150 and spot 124 gives 100.
C1_StrikeIsNearestMultiple ==
    round_pc = "done" =>
        /\ rounded % (50 * TickDiv) = 0
        /\ rounded - price <= 25 * TickDiv
        /\ price - rounded <= 25 * TickDiv
        /\ (price % (50 * TickDiv) = 25 * TickDiv => rounded = price + 25 * TickDiv)
        /\ (price = 125 * TickDiv => rounded = 150 * TickDiv)
        /\ (price = 124 * TickDiv => rounded = 100 * TickDiv)

\* the midpoint 125 has been rounded, to 150
C1_Witness ==
    /\ round_pc = "done"
    /\ price = 125 * TickDiv
    /\ rounded = 150 * TickDiv

(***************************************************************************)
(* Properties of get_last_trading_day                                      *)
(***************************************************************************)
\* the valid trading days of the ten-day window before the reference date
ValidInWindow ==
    {d \in (reference_date - 10)..(reference_date - 1) :
        weekday(d) < 5 /\ strftime(d) \notin holidays}

\* the latest day of a non-empty set of days
LatestOf(S) == CHOOSE d \in S : \A e \in S : e <= d

\* C2: when some non-holiday weekday exists in the ten-day window before the
\* reference date, the day returned is not a Saturday or Sunday, is not in
\* the holiday set, and is the first valid day stepping back from
\* reference_date - 1.
C2_ReturnsFirstValidDay ==
    (cal_pc = "done" /\ ValidInWindow # {}) =>
        /\ weekday(cal_result) < 5
        /\ strftime(cal_result) \notin holidays
        /\ cal_result = LatestOf(ValidInWindow)

\* C3: when the ten-day window before the reference date holds no valid
\* trading day, the day returned is reference_date - 1.
C3_FallbackIsDayBeforeReference ==
    (cal_pc = "done" /\ ValidInWindow = {}) =>
        cal_result = reference_date - 1

\* C9: the search is bounded by the ten-day window before the reference
\* date: every candidate the loop examines lies in it, and the search has
\* returned once the window is exhausted.
C9_SearchStaysInWindow ==
    cal_pc = "loop" =>
        /\ reference_date - current_date >= 1
        /\ reference_date - current_date <= 10

RoundIdle ==
    /\ price = 0
    /\ rounded = NoneInt
    /\ round_pc = "idle"

CalIdle ==
    /\ today = FirstToday
    /\ from_date = NoneInt
    /\ api_holidays = [ok |-> FALSE, dates |-> {}]
    /\ holidays = {}
    /\ current_date = NoneInt
    /\ cal_result = NoneInt
    /\ cal_pc = "idle"

RoundNext == RoundCall

InitRound == RoundInit /\ CalIdle /\ FindIdle /\ AtmIdle /\ MainIdle /\ RunIdle /\ NormIdle /\ ThuIdle

SpecRound == InitRound /\ [][RoundNext]_vars

CalNext ==
    \/ CalStart
    \/ CalAccept
    \/ CalStepBack

InitCal == CalInit /\ RoundIdle /\ FindIdle /\ AtmIdle /\ MainIdle /\ RunIdle /\ NormIdle /\ ThuIdle

SpecCal == InitCal /\ [][CalNext]_vars

FindNext == FindCall

InitFind == FindInit /\ RoundIdle /\ CalIdle /\ AtmIdle /\ MainIdle /\ RunIdle /\ NormIdle /\ ThuIdle

SpecFind == InitFind /\ [][FindNext]_vars

AtmNext ==
    \/ AtmEnsureDir
    \/ AtmLoad
    \/ AtmGuard
    \/ AtmSpot
    \/ AtmFind
    \/ AtmFetch
    \/ AtmWrite
    \/ AtmReturn

InitAtm == AtmInit /\ RoundIdle /\ CalIdle /\ FindIdle /\ MainIdle /\ RunIdle /\ NormIdle /\ ThuIdle

SpecAtm == InitAtm /\ [][AtmNext]_vars

MainNext ==
    \/ MainDownloadUpstox
    \/ MainDownloadGroww
    \/ MainMapping
    \/ MainAuth
    \/ MainHistoric
    \/ MainSummary
    \/ MainExit

InitMain == MainInit /\ RoundIdle /\ CalIdle /\ FindIdle /\ AtmIdle /\ RunIdle /\ NormIdle /\ ThuIdle

SpecMain == InitMain /\ [][MainNext]_vars

RunNext == RunWrite

InitRun == RunInit /\ RoundIdle /\ CalIdle /\ FindIdle /\ AtmIdle /\ MainIdle /\ NormIdle /\ ThuIdle

SpecRun == InitRun /\ [][RunNext]_vars

NormNext ==
    \/ NormCall
    \/ NormAgain

InitNorm == NormInit /\ RoundIdle /\ CalIdle /\ FindIdle /\ AtmIdle /\ MainIdle /\ RunIdle /\ ThuIdle

SpecNorm == InitNorm /\ [][NormNext]_vars

ThuNext ==
    \/ ThuMapper
    \/ ThuToken

InitThu == ThuInit /\ RoundIdle /\ CalIdle /\ FindIdle /\ AtmIdle /\ MainIdle /\ RunIdle /\ NormIdle

SpecThu == InitThu /\ [][ThuNext]_vars

====
